---- MODULE Spec2Model ----
(***************************************************************************)
(* The parse driver of src/runtime/parser.c: the table-driven shift/reduce *)
(* loop, its two lookahead slots, panic-mode error recovery and the stack  *)
(* breakdown used for incremental re-parsing.                              *)
(*                                                                         *)
(* Trees live in a heap (a sequence of node records, a node's id is its    *)
(* index) because the driver aliases nodes (the error node of              *)
(* handle_error is the lookahead it started with) and counts references.   *)
(* Every C function of parser.c is an operator from a parser record to a   *)
(* parser record; the actions apply them to the variables.                 *)
(***************************************************************************)
EXTENDS Integers, Sequences, FiniteSets, TLC

VARIABLES
  language,        \* parser->language: the name of the language
  heap,            \* the tree nodes ever made, by id
  stack,           \* parser->stack: the entries, bottom first
  lookahead,       \* parser->lookahead: a node id or NULL
  next_lookahead,  \* parser->next_lookahead: a node id or NULL
  lexer,           \* parser->lexer: input and the three positions
  pc,              \* where the parser is in ts_parser_parse
  error,           \* handle_error's local `error`
  position,        \* breakdown_stack's local `position`
  edit,            \* the edit ts_parser_parse was called with
  result,          \* what the last ts_parser_parse returned
  calls,           \* the number of calls of ts_parser_parse
  tick             \* flips at every pass of a loop of ts_parser_parse

vars == <<language, heap, stack, lookahead, next_lookahead, lexer, pc,
          error, position, edit, result, calls, tick>>

-----------------------------------------------------------------------------
(* Bounds of the model *)

MaxLen == 4

MaxEditLen == 3

MaxInsert == 1

MaxReparses == 1

MaxSteps == 40

MaxLongLen == 5

-----------------------------------------------------------------------------
(* Constants of the runtime *)

NULL == 0

ts_lex_state_error == -1

ts_builtin_sym_error == "error"

ts_builtin_sym_end == "end"

ts_builtin_sym_document == "document"

TSParseActionTypeError == "Error"

TSParseActionTypeShift == "Shift"

TSParseActionTypeShiftExtra == "ShiftExtra"

TSParseActionTypeReduce == "Reduce"

TSParseActionTypeReduceExtra == "ReduceExtra"

TSParseActionTypeAccept == "Accept"

RecognizedTypes ==
  {TSParseActionTypeError, TSParseActionTypeShift, TSParseActionTypeShiftExtra,
   TSParseActionTypeReduce, TSParseActionTypeReduceExtra, TSParseActionTypeAccept}

-----------------------------------------------------------------------------
(* The languages: the arithmetic grammar  expr -> expr '+' expr | number   *)
(* with '#' as an extra token and blanks as token padding, and tables      *)
(* derived from it.                                                        *)

Chars == {"1", "+", "#", "@", " "}

Tokens == {"end", "number", "plus", "hash"}

Symbols == Tokens \cup {"error", "expr", "comment", "document"}

States == 0..6

ErrorAction == [type |-> "Error", to_state |-> 0, symbol |-> "error", child_count |-> 0]

AcceptAction == [ErrorAction EXCEPT !.type = "Accept"]

ShiftExtraAction == [ErrorAction EXCEPT !.type = "ShiftExtra"]

UnknownAction == [ErrorAction EXCEPT !.type = "Unknown"]

ShiftTo(s) == [ErrorAction EXCEPT !.type = "Shift", !.to_state = s]

ReduceTo(sym, n) == [ErrorAction EXCEPT !.type = "Reduce", !.symbol = sym, !.child_count = n]

ReduceExtraTo(sym) == [ErrorAction EXCEPT !.type = "ReduceExtra", !.symbol = sym]

(* The table of the arithmetic grammar.  States: 0 start, 1 after number,   *)
(* 2 after expr, 3 after expr '+', 4 after expr '+' expr, 6 after an       *)
(* error; '#' is shifted as an extra in every state.                       *)
ArithTable(state, sym) ==
  CASE state = 5 -> ErrorAction
    [] sym = "hash" -> ShiftExtraAction
    [] state \in {0, 6} /\ sym = "number" -> ShiftTo(1)
    [] state \in {0, 6} /\ sym = "expr" -> ShiftTo(2)
    [] state \in {0, 2} /\ sym = "error" -> ShiftTo(6)
    [] state = 1 /\ sym \in {"plus", "end", "error"} -> ReduceTo("expr", 1)
    [] state = 2 /\ sym = "plus" -> ShiftTo(3)
    [] state \in {2, 6} /\ sym = "end" -> AcceptAction
    [] state = 3 /\ sym = "number" -> ShiftTo(1)
    [] state = 3 /\ sym = "expr" -> ShiftTo(4)
    [] state = 4 /\ sym \in {"plus", "end", "error"} -> ReduceTo("expr", 3)
    [] OTHER -> ErrorAction

(* The same grammar with '#' wrapped into an extra `comment` node: '#' is  *)
(* shifted to state 5, reduced there by ReduceExtra, and the comment is    *)
(* shifted as an extra.                                                    *)
CommentTable(state, sym) ==
  CASE sym = "comment" -> ShiftExtraAction
    [] state # 5 /\ sym = "hash" -> ShiftTo(5)
    [] state = 5 /\ sym \in Tokens \cup {"error"} -> ReduceExtraTo("comment")
    [] OTHER -> ArithTable(state, sym)

Languages == {"arith", "flat", "comment", "goto", "errtwice", "unknown"}

(* parse_table of each language:                                           *)
(*   arith, flat   the arithmetic grammar ("flat": its lexer does not      *)
(*                 depend on the parse state)                              *)
(*   comment       the grammar with wrapped comments                       *)
(*   goto          "comment" with a Shift for the comment node             *)
(*   errtwice      "arith" where the state after an error shifts an error  *)
(*   unknown       "arith" with two cells of an unrecognized action type   *)
(*   acceptstart   "arith" accepting the end of the input in the start     *)
(*                 state (not among Languages; see SpecAcceptAtStart)      *)
parse_table(lang, state, sym) ==
  CASE lang = "errtwice" /\ state = 6 /\ sym = "error" -> ShiftTo(3)
    [] lang = "acceptstart" /\ state = 0 /\ sym = "end" -> AcceptAction
    [] lang = "unknown" /\ state = 3 /\ sym = "expr" -> UnknownAction
    [] lang = "unknown" /\ state = 6 /\ sym = "number" -> UnknownAction
    [] lang = "goto" /\ sym = "comment" -> ShiftTo(2)
    [] lang \in {"comment", "goto"} -> CommentTable(state, sym)
    [] OTHER -> ArithTable(state, sym)

lex_states(lang, state) == state

hidden_symbol_flags(lang, sym) == lang = "flat" /\ sym = "document"

(* The tokens the lexer recognizes in a lex state: those the parse state   *)
(* has an action for; every token in the error state and in the language   *)
(* whose lexer does not depend on the parse state.                         *)
LexAccepts(lang, lex_state) ==
  IF lex_state = ts_lex_state_error \/ lang = "flat"
  THEN Tokens
  ELSE {t \in Tokens : parse_table(lang, lex_state, t).type # TSParseActionTypeError}

-----------------------------------------------------------------------------
(* Length arithmetic (runtime/length.h), on the chars component.  A length *)
(* is kept as an integer; a negative value stands for the wrapped-around   *)
(* unsigned value, which is larger than every position of the input.       *)

ts_length_zero == 0

ts_length_add(a, b) == a + b

ts_length_sub(a, b) == a - b

ts_length_eq(a, b) == a = b

UnsignedLess(a, b) == IF a < 0 THEN FALSE ELSE IF b < 0 THEN TRUE ELSE a < b

-----------------------------------------------------------------------------
(* Trees (runtime/tree.h): reference-counted nodes in the heap *)

ts_tree_total_size(h, id) == ts_length_add(h[id].padding, h[id].size)

ts_tree_is_extra(h, id) == h[id].extra

ts_tree_children(h, id) == h[id].children

ts_tree_retain(h, id) == [h EXCEPT ![id].ref_count = @ + 1]

RECURSIVE ts_tree_release(_, _)
RECURSIVE ReleaseEach(_, _)

ReleaseEach(h, ids) ==
  IF ids = <<>> THEN h ELSE ReleaseEach(ts_tree_release(h, Head(ids)), Tail(ids))

ts_tree_release(h, id) ==
  IF h[id].ref_count = 1
  THEN ReleaseEach([h EXCEPT ![id].ref_count = 0], h[id].children)
  ELSE [h EXCEPT ![id].ref_count = @ - 1]

ts_tree_set_extra(h, id) == [h EXCEPT ![id].extra = TRUE]

ts_tree_make_leaf(sym, size, padding, is_hidden) ==
  [symbol |-> sym, padding |-> padding, size |-> size, children |-> <<>>,
   extra |-> FALSE, hidden |-> is_hidden, ref_count |-> 1]

ts_tree_make_error(size, padding) ==
  ts_tree_make_leaf(ts_builtin_sym_error, size, padding, FALSE)

RECURSIVE SumTotal(_, _)
SumTotal(h, ids) ==
  IF ids = <<>> THEN 0
  ELSE ts_length_add(ts_tree_total_size(h, Head(ids)), SumTotal(h, Tail(ids)))

RECURSIVE RetainEach(_, _)
RetainEach(h, ids) ==
  IF ids = <<>> THEN h ELSE RetainEach(ts_tree_retain(h, Head(ids)), Tail(ids))

(* the new node; its children are retained by the caller with RetainEach *)
ts_tree_make_node(h, sym, children, is_hidden) ==
  [symbol |-> sym,
   padding |-> IF children = <<>> THEN 0 ELSE h[children[1]].padding,
   size |-> IF children = <<>> THEN 0
            ELSE ts_length_sub(SumTotal(h, children), h[children[1]].padding),
   children |-> children, extra |-> FALSE, hidden |-> is_hidden, ref_count |-> 1]

LiveNodes(h) == Cardinality({i \in 1..Len(h) : h[i].ref_count > 0})

-----------------------------------------------------------------------------
(* Stack (runtime/stack.h).  p is the parser record: the fields of         *)
(* TSParser, its lexer and the heap.                                       *)

NodesOf(stk) == [i \in 1..Len(stk) |-> stk[i].node]

ts_stack_top_state(stk) == IF stk = <<>> THEN 0 ELSE stk[Len(stk)].state

ts_stack_top_node(stk) == IF stk = <<>> THEN NULL ELSE stk[Len(stk)].node

ts_stack_right_position(h, stk) == SumTotal(h, NodesOf(stk))

ts_stack_push(p, state, node) ==
  [p EXCEPT !.stack = Append(@, [state |-> state, node |-> node]),
            !.heap = ts_tree_retain(@, node)]

ts_stack_shrink(p, new_size) ==
  [p EXCEPT !.stack = SubSeq(@, 1, new_size),
            !.heap = ReleaseEach(@, NodesOf(SubSeq(p.stack, new_size + 1, Len(p.stack))))]

ts_stack_delete(p) == ts_stack_shrink(p, 0)

-----------------------------------------------------------------------------
(* Lexer (runtime/lexer.h and the generated lex function) *)

ts_lexer_make ==
  [input |-> <<>>, current_position |-> 0, token_start_position |-> 0,
   token_end_position |-> 0]

ts_lexer_reset(lx, pos) ==
  [lx EXCEPT !.current_position = pos, !.token_start_position = pos,
             !.token_end_position = pos]

(* ts_lexer_advance returns 0 at the end of the input and moves otherwise *)
CanAdvance(lx) == lx.current_position < Len(lx.input)

ts_lexer_advance(lx) ==
  IF CanAdvance(lx) THEN [lx EXCEPT !.current_position = @ + 1] ELSE lx

CharAt(input, pos) == IF pos < Len(input) THEN input[pos + 1] ELSE "EOF"

RECURSIVE SkipWhile(_, _, _)
SkipWhile(input, pos, c) ==
  IF CharAt(input, pos) = c THEN SkipWhile(input, pos + 1, c) ELSE pos

TokenOfChar(c) ==
  CASE c = "EOF" -> "end"
    [] c = "1" -> "number"
    [] c = "+" -> "plus"
    [] c = "#" -> "hash"
    [] OTHER -> "error"

(* The symbol and the end of the token that starts at `start`: a token the *)
(* lex state does not recognize is the error token, of length zero.        *)
ScanToken(lang, lex_state, input, start) ==
  LET c == CharAt(input, start)
      sym == TokenOfChar(c)
  IN IF sym \notin LexAccepts(lang, lex_state)
     THEN [symbol |-> ts_builtin_sym_error, end |-> start]
     ELSE [symbol |-> sym,
           end |-> CASE sym = "end" -> start
                     [] sym = "number" -> SkipWhile(input, start, "1")
                     [] OTHER -> start + 1]

(* lex_fn: skip blanks (the token's padding), start the token, scan it and *)
(* accept it (ts_lexer_accept).  The new token is the last node of the     *)
(* heap of the result.                                                     *)
lex_fn(p, lex_state) ==
  LET lx == p.lexer
      start == SkipWhile(lx.input, lx.current_position, " ")
      tok == ScanToken(p.language, lex_state, lx.input, start)
      size == ts_length_sub(tok.end, start)
      padding == ts_length_sub(start, lx.token_end_position)
      node == IF tok.symbol = ts_builtin_sym_error
              THEN ts_tree_make_error(size, padding)
              ELSE ts_tree_make_leaf(tok.symbol, size, padding,
                                     hidden_symbol_flags(p.language, tok.symbol))
  IN [p EXCEPT !.heap = Append(@, node),
               !.lexer = [lx EXCEPT !.current_position = tok.end,
                                    !.token_start_position = start,
                                    !.token_end_position = tok.end]]

-----------------------------------------------------------------------------
(* parser.c *)

action_for(lang, state, sym) == parse_table(lang, state, sym)

lex(p, lex_state) ==
  LET q == lex_fn(p, lex_state) IN [q EXCEPT !.lookahead = Len(q.heap)]

resize_error(p, err) ==
  [p EXCEPT !.heap[err].size =
     ts_length_sub(ts_length_sub(p.lexer.token_start_position,
                                 ts_stack_right_position(p.heap, p.stack)),
                   p.heap[err].padding)]

(* shift without line 83: next_lookahead keeps the token it handed over *)
shift_keeps_next_lookahead(p, parse_state) ==
  LET state == IF ts_tree_is_extra(p.heap, p.lookahead)
               THEN ts_stack_top_state(p.stack) ELSE parse_state
      q == ts_stack_push(p, state, p.lookahead)
  IN [q EXCEPT !.lookahead = p.next_lookahead]

(* shift emptying both slots: the token reduce moved aside is dropped *)
shift_drops_next_lookahead(p, parse_state) ==
  LET state == IF ts_tree_is_extra(p.heap, p.lookahead)
               THEN ts_stack_top_state(p.stack) ELSE parse_state
      q == ts_stack_push(p, state, p.lookahead)
  IN [q EXCEPT !.lookahead = NULL, !.next_lookahead = NULL]

shift(p, parse_state) ==
  LET state == IF ts_tree_is_extra(p.heap, p.lookahead)
               THEN ts_stack_top_state(p.stack) ELSE parse_state
      q == ts_stack_push(p, state, p.lookahead)
  IN [q EXCEPT !.lookahead = p.next_lookahead, !.next_lookahead = NULL]

shift_extra(p) ==
  shift([p EXCEPT !.heap = ts_tree_set_extra(@, p.lookahead)], 0)

(* reduce without lines 100-106: extras on the stack count as children *)
CountsExtras(h, stk, child_count, i) == child_count

(* The walk down the stack of reduce: the number of entries to take.       *)
RECURSIVE EffectiveChildCount(_, _, _, _)
EffectiveChildCount(h, stk, child_count, i) ==
  IF i >= child_count \/ child_count = Len(stk) THEN child_count
  ELSE IF ts_tree_is_extra(h, stk[Len(stk) - i].node)
       THEN EffectiveChildCount(h, stk, child_count + 1, i + 1)
       ELSE EffectiveChildCount(h, stk, child_count, i + 1)

(* reduce reads below the stack's first entry when the table asks for more *)
(* children than the stack holds.                                          *)
ReduceOutOfBounds(p, child_count) == child_count > Len(p.stack)

(* reduce filling children[] from the top of the stack downwards *)
reduce_top_first(p, sym, child_count) ==
  LET n == EffectiveChildCount(p.heap, p.stack, child_count, 0)
      start_index == Len(p.stack) - n
      children == [i \in 1..n |-> p.stack[Len(p.stack) + 1 - i].node]
      node == ts_tree_make_node(p.heap, sym, children,
                                hidden_symbol_flags(p.language, sym))
      q == [p EXCEPT !.next_lookahead = p.lookahead,
                     !.heap = Append(RetainEach(@, children), node),
                     !.lookahead = Len(p.heap) + 1]
  IN ts_stack_shrink(q, start_index)

reduce(p, sym, child_count) ==
  LET n == EffectiveChildCount(p.heap, p.stack, child_count, 0)
      start_index == Len(p.stack) - n
      children == NodesOf(SubSeq(p.stack, start_index + 1, Len(p.stack)))
      node == ts_tree_make_node(p.heap, sym, children,
                                hidden_symbol_flags(p.language, sym))
      q == [p EXCEPT !.next_lookahead = p.lookahead,
                     !.heap = Append(RetainEach(@, children), node),
                     !.lookahead = Len(p.heap) + 1]
  IN ts_stack_shrink(q, start_index)

reduce_extra(p, sym) ==
  LET q == reduce(p, sym, 1) IN [q EXCEPT !.heap = ts_tree_set_extra(@, q.lookahead)]

(* handle_error, lines 124-125: the error node is the lookahead itself *)
handle_error_enter(p) ==
  [p EXCEPT !.error = p.lookahead,
            !.heap = ts_tree_retain(@, p.lookahead),
            !.pc = "handle_error"]

(* handle_error, lines 133-143: the topmost entry to unwind to, 0 if none *)
RECURSIVE RecoverIndexFrom(_, _)
RecoverIndexFrom(p, i) ==
  IF i = 0 THEN 0
  ELSE LET action_on_error ==
             action_for(p.language, p.stack[i].state, ts_builtin_sym_error)
           action_after_error ==
             action_for(p.language, action_on_error.to_state,
                        p.heap[p.lookahead].symbol)
       IN IF /\ action_on_error.type = TSParseActionTypeShift
             /\ action_after_error.type # TSParseActionTypeError
          THEN i
          ELSE RecoverIndexFrom(p, i - 1)

RecoverIndex(p) == RecoverIndexFrom(p, Len(p.stack))

(* recovery that pushes the error node without unwinding the stack *)
recover_without_unwinding(p, i) ==
  LET state_after_error ==
        action_for(p.language, p.stack[i].state, ts_builtin_sym_error).to_state
      q2 == [p EXCEPT !.heap[p.lookahead].padding = ts_length_zero]
      q3 == resize_error(q2, p.error)
      q4 == ts_stack_push(q3, state_after_error, p.error)
  IN [q4 EXCEPT !.heap = ts_tree_release(@, p.error), !.error = NULL, !.pc = "loop"]

(* handle_error, lines 144-152: recovery at entry i; returns 1 *)
recover(p, i) ==
  LET state_after_error ==
        action_for(p.language, p.stack[i].state, ts_builtin_sym_error).to_state
      q1 == ts_stack_shrink(p, i)
      q2 == [q1 EXCEPT !.heap[p.lookahead].padding = ts_length_zero]
      q3 == resize_error(q2, p.error)
      q4 == ts_stack_push(q3, state_after_error, p.error)
  IN [q4 EXCEPT !.heap = ts_tree_release(@, p.error), !.error = NULL, !.pc = "loop"]

(* handle_error, lines 162-166: release the lookahead and lex again *)
lex_again(p) ==
  lex(IF p.lookahead # NULL
      THEN [p EXCEPT !.heap = ts_tree_release(@, p.lookahead)] ELSE p,
      ts_lex_state_error)

(* handle_error, lines 172-173: the lexer did not move and cannot advance *)
EndOfInput(p) ==
  LET q == lex_again(p)
  IN /\ ts_length_eq(q.lexer.current_position, p.lexer.current_position)
     /\ ~CanAdvance(q.lexer)

(* a failed recovery that gives up the parse: the callers return NULL *)
fail_to_recover_returns_null(p) ==
  LET q1 == resize_error(p, p.error)
      q2 == ts_stack_push(q1, 0, p.error)
  IN [q2 EXCEPT !.heap = ts_tree_release(@, p.error), !.error = NULL,
                !.result = NULL, !.pc = "returned"]

(* handle_error, lines 176-179 and the callers' `return get_root(parser)` *)
fail_to_recover(p) ==
  LET q1 == resize_error(p, p.error)
      q2 == ts_stack_push(q1, 0, p.error)
  IN [q2 EXCEPT !.heap = ts_tree_release(@, p.error), !.error = NULL, !.pc = "get_root"]

(* a pass of handle_error that lexes again but never skips a character *)
handle_error_pass_without_skip(p) ==
  IF RecoverIndex(p) # 0 THEN recover(p, RecoverIndex(p))
  ELSE LET q == lex_again(p)
       IN IF ts_length_eq(q.lexer.current_position, p.lexer.current_position)
          THEN IF CanAdvance(q.lexer) THEN q ELSE fail_to_recover(q)
          ELSE q

(* one pass of the for (;;) of handle_error *)
handle_error_pass(p) ==
  IF RecoverIndex(p) # 0 THEN recover(p, RecoverIndex(p))
  ELSE LET q == lex_again(p)
       IN IF ts_length_eq(q.lexer.current_position, p.lexer.current_position)
          THEN IF CanAdvance(q.lexer)
               THEN [q EXCEPT !.lexer = ts_lexer_advance(@)]
               ELSE fail_to_recover(q)
          ELSE q

(* get_root without line 190: the document keeps the options reduce gave it *)
get_root_keeps_options(p) ==
  LET q0 == IF Len(p.stack) = 0
            THEN ts_stack_push(
                   [p EXCEPT !.heap = Append(@, ts_tree_make_error(ts_length_zero,
                                                                    ts_length_zero))],
                   0, Len(p.heap) + 1)
            ELSE p
      q1 == reduce(q0, ts_builtin_sym_document, Len(q0.stack))
      q3 == shift(q1, 0)
  IN [q3 EXCEPT !.result = q3.stack[1].node, !.pc = "returned"]

get_root(p) ==
  LET q0 == IF Len(p.stack) = 0
            THEN ts_stack_push(
                   [p EXCEPT !.heap = Append(@, ts_tree_make_error(ts_length_zero,
                                                                    ts_length_zero))],
                   0, Len(p.heap) + 1)
            ELSE p
      q1 == reduce(q0, ts_builtin_sym_document, Len(q0.stack))
      q2 == [q1 EXCEPT !.heap[q1.lookahead].extra = FALSE,
                       !.heap[q1.lookahead].hidden = FALSE]
      q3 == shift(q2, 0)
  IN [q3 EXCEPT !.result = q3.stack[1].node, !.pc = "returned"]

NoEdit == [present |-> FALSE, position |-> 0, chars_inserted |-> 0, chars_removed |-> 0]

(* returning from breakdown_stack with the lexer reset to the edit *)
breakdown_done_at_edit(p) ==
  [p EXCEPT !.lexer = ts_lexer_reset(@, p.edit.position), !.pc = "loop"]

(* breakdown_stack, lines 38-65: one pass of its for (;;); leaving the     *)
(* loop returns the position, to which ts_parser_parse resets the lexer    *)
(* (lines 218-221).                                                        *)
breakdown_done(p) ==
  [p EXCEPT !.lexer = ts_lexer_reset(@, p.position), !.pc = "loop"]

(* the put-back loop pushing a child that is not shifted with state 0 *)
RECURSIVE PutBackAtStartState(_, _, _)
PutBackAtStartState(p, children, i) ==
  IF i > Len(children) \/ ~UnsignedLess(p.position, p.edit.position) THEN p
  ELSE LET child == children[i]
           state == ts_stack_top_state(p.stack)
           action == action_for(p.language, state, p.heap[child].symbol)
           next_state == IF action.type = TSParseActionTypeShift
                         THEN action.to_state ELSE 0
           q == ts_stack_push(p, next_state, child)
       IN PutBackAtStartState([q EXCEPT !.position =
                                 ts_length_add(@, ts_tree_total_size(p.heap, child))],
                              children, i + 1)

RECURSIVE PutBack(_, _, _)
PutBack(p, children, i) ==
  IF i > Len(children) \/ ~UnsignedLess(p.position, p.edit.position) THEN p
  ELSE LET child == children[i]
           state == ts_stack_top_state(p.stack)
           action == action_for(p.language, state, p.heap[child].symbol)
           next_state == IF action.type = TSParseActionTypeShift
                         THEN action.to_state ELSE state
           q == ts_stack_push(p, next_state, child)
       IN PutBack([q EXCEPT !.position =
                     ts_length_add(@, ts_tree_total_size(p.heap, child))],
                  children, i + 1)

(* a pass of breakdown_stack that also stops at a leaf ending at the edit *)
breakdown_pass_stops_at_edit(p) ==
  LET node == ts_stack_top_node(p.stack) IN
  IF node = NULL THEN breakdown_done(p)
  ELSE LET children == ts_tree_children(p.heap, node) IN
       IF ~UnsignedLess(p.edit.position, p.position) /\ children = <<>>
       THEN breakdown_done(p)
       ELSE LET q1 == [p EXCEPT !.stack = SubSeq(@, 1, Len(@) - 1),
                                !.position = ts_length_sub(@,
                                               ts_tree_total_size(p.heap, node))]
                q2 == PutBack(q1, children, 1)
            IN [q2 EXCEPT !.heap = ts_tree_release(@, node)]

breakdown_pass(p) ==
  LET node == ts_stack_top_node(p.stack) IN
  IF node = NULL THEN breakdown_done(p)
  ELSE LET children == ts_tree_children(p.heap, node) IN
       IF UnsignedLess(p.position, p.edit.position) /\ children = <<>>
       THEN breakdown_done(p)
       ELSE LET q1 == [p EXCEPT !.stack = SubSeq(@, 1, Len(@) - 1),
                                !.position = ts_length_sub(@,
                                               ts_tree_total_size(p.heap, node))]
                q2 == PutBack(q1, children, 1)
            IN [q2 EXCEPT !.heap = ts_tree_release(@, node)]

(* ts_parser_parse, lines 216-221, and breakdown_stack, lines 30-36 *)
parse_begin(p, in, ed) ==
  LET q == [p EXCEPT !.lookahead = NULL, !.next_lookahead = NULL,
                     !.edit = ed, !.lexer.input = in, !.result = NULL]
  IN IF ~ed.present
     THEN LET q1 == ts_stack_shrink(q, 0)
          IN [q1 EXCEPT !.position = ts_length_zero,
                        !.lexer = ts_lexer_reset(@, ts_length_zero),
                        !.pc = "loop"]
     ELSE [q EXCEPT !.position = ts_stack_right_position(q.heap, q.stack),
                    !.pc = "breakdown_stack"]

(* ts_parser_parse, lines 227-272: the action looked up and its dispatch *)
CurrentAction(p) ==
  action_for(p.language, ts_stack_top_state(p.stack), p.heap[p.lookahead].symbol)

(* case TSParseActionTypeAccept with a break in place of the return *)
accept_breaks(p) == p

(* ts_parser_parse, lines 260-262; get_root is the next step *)
accept(p) == [p EXCEPT !.pc = "get_root"]

(* a default case that drops the lookahead before it returns *)
unknown_releases_lookahead(p) ==
  [p EXCEPT !.heap = ts_tree_release(@, p.lookahead), !.lookahead = NULL,
            !.result = NULL, !.pc = "returned"]

(* ts_parser_parse, lines 270-271 *)
unknown(p) == [p EXCEPT !.result = NULL, !.pc = "returned"]

dispatch(p) ==
  LET action == CurrentAction(p) IN
  CASE action.type = TSParseActionTypeShift ->
         IF p.heap[p.lookahead].symbol = ts_builtin_sym_error
         THEN handle_error_enter(p)
         ELSE shift(p, action.to_state)
    [] action.type = TSParseActionTypeShiftExtra -> shift_extra(p)
    [] action.type = TSParseActionTypeReduce ->
         IF ReduceOutOfBounds(p, action.child_count)
         THEN [p EXCEPT !.pc = "undefined"]
         ELSE reduce(p, action.symbol, action.child_count)
    [] action.type = TSParseActionTypeReduceExtra ->
         IF ReduceOutOfBounds(p, 1)
         THEN [p EXCEPT !.pc = "undefined"]
         ELSE reduce_extra(p, action.symbol)
    [] action.type = TSParseActionTypeAccept -> accept(p)
    [] action.type = TSParseActionTypeError -> handle_error_enter(p)
    [] OTHER -> unknown(p)

(* ts_parser_parse, lines 224-226 *)
lex_lookahead(p) ==
  lex(p, lex_states(p.language, ts_stack_top_state(p.stack)))

ts_parser_make(lang) ==
  [language |-> lang, heap |-> <<>>, stack |-> <<>>, lookahead |-> NULL,
   next_lookahead |-> NULL, lexer |-> ts_lexer_make, pc |-> "idle",
   error |-> NULL, position |-> 0, edit |-> NoEdit, result |-> NULL]

ts_parser_destroy(p) ==
  LET q1 == IF p.lookahead # NULL
            THEN [p EXCEPT !.heap = ts_tree_release(@, p.lookahead)] ELSE p
      q2 == IF q1.next_lookahead # NULL
            THEN [q1 EXCEPT !.heap = ts_tree_release(@, q1.next_lookahead)] ELSE q1
      q3 == ts_stack_delete(q2)
  IN [q3 EXCEPT !.pc = "destroyed"]

(* ts_parser_parse, lines 223-273, as a function: the loop run until it   *)
(* returns, for at most MaxSteps steps.                                    *)
step(p) ==
  CASE p.pc = "breakdown_stack" -> breakdown_pass(p)
    [] p.pc = "loop" -> IF p.lookahead = NULL THEN lex_lookahead(p) ELSE dispatch(p)
    [] p.pc = "handle_error" -> handle_error_pass(p)
    [] p.pc = "get_root" -> get_root(p)
    [] OTHER -> p

RECURSIVE run(_, _)
run(p, fuel) ==
  IF fuel = 0 \/ p.pc \in {"returned", "undefined"} THEN p ELSE run(step(p), fuel - 1)

ts_parser_parse(p, in, ed) == run(parse_begin(p, in, ed), MaxSteps)

(* the tree below a node, as a value *)
RECURSIVE TreeOf(_, _)
TreeOf(h, id) ==
  [symbol |-> h[id].symbol, padding |-> h[id].padding, size |-> h[id].size,
   extra |-> h[id].extra, hidden |-> h[id].hidden,
   children |-> [i \in 1..Len(h[id].children) |-> TreeOf(h, h[id].children[i])]]

-----------------------------------------------------------------------------
(* The state machine *)

Cur ==
  [language |-> language, heap |-> heap, stack |-> stack, lookahead |-> lookahead,
   next_lookahead |-> next_lookahead, lexer |-> lexer, pc |-> pc, error |-> error,
   position |-> position, edit |-> edit, result |-> result]

Set(q) ==
  /\ language' = q.language
  /\ heap' = q.heap
  /\ stack' = q.stack
  /\ lookahead' = q.lookahead
  /\ next_lookahead' = q.next_lookahead
  /\ lexer' = q.lexer
  /\ pc' = q.pc
  /\ error' = q.error
  /\ position' = q.position
  /\ edit' = q.edit
  /\ result' = q.result

StringsUpTo(n) == UNION {[1..k -> Chars] : k \in 0..n}

Inputs == StringsUpTo(MaxLen)

EditInputs == StringsUpTo(MaxEditLen)

LongInputs == StringsUpTo(MaxLongLen)

Insertions == StringsUpTo(MaxInsert)

ApplyEdit(in, pos, removed, ins) ==
  SubSeq(in, 1, pos) \o ins \o SubSeq(in, pos + removed + 1, Len(in))

Init ==
  /\ language \in Languages
  /\ heap = <<>>
  /\ stack = <<>>
  /\ lookahead = NULL
  /\ next_lookahead = NULL
  /\ lexer = ts_lexer_make
  /\ pc = "idle"
  /\ error = NULL
  /\ position = 0
  /\ edit = NoEdit
  /\ result = NULL
  /\ calls = 0
  /\ tick = FALSE

(* one pass of a loop of ts_parser_parse *)
Pass == tick' = ~tick /\ UNCHANGED calls

(* the first ts_parser_parse(parser, input, NULL) *)
Parse(S) ==
  /\ pc = "idle"
  /\ \E in \in S : Set(parse_begin(Cur, in, NoEdit))
  /\ calls' = calls + 1
  /\ tick' = FALSE

(* ts_parser_parse(parser, input', &edit) after a parse that returned a tree *)
ParseEdited ==
  /\ pc = "returned"
  /\ result # NULL
  /\ calls <= MaxReparses
  /\ \E pos \in 0..Len(lexer.input), ins \in Insertions :
       \E removed \in 0..(IF pos < Len(lexer.input) THEN 1 ELSE 0) :
         Set(parse_begin(Cur, ApplyEdit(lexer.input, pos, removed, ins),
                         [present |-> TRUE, position |-> pos,
                          chars_inserted |-> Len(ins), chars_removed |-> removed]))
  /\ calls' = calls + 1
  /\ tick' = FALSE

(* ts_parser_parse(parser, input, NULL) again on a parser that has parsed *)
ParseAgain ==
  /\ pc = "returned"
  /\ result # NULL
  /\ calls <= MaxReparses
  /\ Set(parse_begin(Cur, lexer.input, NoEdit))
  /\ calls' = calls + 1
  /\ tick' = FALSE

Breakdown ==
  /\ pc = "breakdown_stack"
  /\ Set(breakdown_pass(Cur))
  /\ Pass

Lex ==
  /\ pc = "loop"
  /\ lookahead = NULL
  /\ Set(lex_lookahead(Cur))
  /\ Pass

Dispatching(type) ==
  /\ pc = "loop"
  /\ lookahead # NULL
  /\ CurrentAction(Cur).type = type

Shift ==
  /\ Dispatching(TSParseActionTypeShift)
  /\ heap[lookahead].symbol # ts_builtin_sym_error
  /\ Set(dispatch(Cur))
  /\ Pass

ShiftError ==
  /\ Dispatching(TSParseActionTypeShift)
  /\ heap[lookahead].symbol = ts_builtin_sym_error
  /\ Set(dispatch(Cur))
  /\ Pass

ShiftExtra ==
  /\ Dispatching(TSParseActionTypeShiftExtra)
  /\ Set(dispatch(Cur))
  /\ Pass

Reduce ==
  /\ Dispatching(TSParseActionTypeReduce)
  /\ Set(dispatch(Cur))
  /\ Pass

ReduceExtra ==
  /\ Dispatching(TSParseActionTypeReduceExtra)
  /\ Set(dispatch(Cur))
  /\ Pass

Accept ==
  /\ Dispatching(TSParseActionTypeAccept)
  /\ Set(dispatch(Cur))
  /\ Pass

Error ==
  /\ Dispatching(TSParseActionTypeError)
  /\ Set(dispatch(Cur))
  /\ Pass

UnknownType ==
  /\ pc = "loop"
  /\ lookahead # NULL
  /\ CurrentAction(Cur).type \notin RecognizedTypes
  /\ Set(dispatch(Cur))
  /\ Pass

Recover ==
  /\ pc = "handle_error"
  /\ RecoverIndex(Cur) # 0
  /\ Set(handle_error_pass(Cur))
  /\ Pass

LexAgain ==
  /\ pc = "handle_error"
  /\ RecoverIndex(Cur) = 0
  /\ ~EndOfInput(Cur)
  /\ Set(handle_error_pass(Cur))
  /\ Pass

FailToRecover ==
  /\ pc = "handle_error"
  /\ RecoverIndex(Cur) = 0
  /\ EndOfInput(Cur)
  /\ Set(handle_error_pass(Cur))
  /\ Pass

GetRoot ==
  /\ pc = "get_root"
  /\ Set(get_root(Cur))
  /\ Pass

Destroy ==
  /\ pc \in {"idle", "returned"}
  /\ Set(ts_parser_destroy(Cur))
  /\ UNCHANGED <<calls, tick>>

Step ==
  \/ Lex
  \/ Shift
  \/ ShiftError
  \/ ShiftExtra
  \/ Reduce
  \/ ReduceExtra
  \/ Accept
  \/ Error
  \/ UnknownType
  \/ Recover
  \/ LexAgain
  \/ FailToRecover
  \/ GetRoot

Next ==
  \/ Parse(Inputs)
  \/ Step
  \/ Destroy

Spec == Init /\ [][Next]_vars

NextEdit ==
  \/ Parse(EditInputs)
  \/ ParseEdited
  \/ ParseAgain
  \/ Breakdown
  \/ Step
  \/ Destroy

SpecEdit == Init /\ [][NextEdit]_vars

(* first parses of longer inputs *)
NextLong ==
  \/ Parse(LongInputs)
  \/ Step
  \/ Destroy

SpecLong == Init /\ [][NextLong]_vars

(* The parsers of SpecEdit and one more, whose table accepts in the start  *)
(* state, so that get_root can find the stack empty.                       *)
InitAcceptAtStart ==
  /\ language \in Languages \cup {"acceptstart"}
  /\ heap = <<>>
  /\ stack = <<>>
  /\ lookahead = NULL
  /\ next_lookahead = NULL
  /\ lexer = ts_lexer_make
  /\ pc = "idle"
  /\ error = NULL
  /\ position = 0
  /\ edit = NoEdit
  /\ result = NULL
  /\ calls = 0
  /\ tick = FALSE

SpecAcceptAtStart == InitAcceptAtStart /\ [][NextEdit]_vars

(* The loops of ts_parser_parse keep running: a call that has not returned *)
(* takes its next pass.                                                    *)
Running == {"breakdown_stack", "loop", "handle_error", "get_root"}

NextPass == pc \in Running /\ tick' = ~tick

FairSpec == Init /\ [][Next]_vars /\ WF_tick(NextPass)

-----------------------------------------------------------------------------
(* Properties *)

Returned == pc = "returned" /\ result # NULL

(* The table lets recovery resume on the error token itself: some state    *)
(* entered by shifting the error symbol has an action on the error symbol. *)
ErrorAfterError(lang) ==
  \E s \in States :
    LET action_on_error == action_for(lang, s, ts_builtin_sym_error)
    IN /\ action_on_error.type = TSParseActionTypeShift
       /\ action_for(lang, action_on_error.to_state, ts_builtin_sym_error).type
            # TSParseActionTypeError

AllRecognized(lang) ==
  \A s \in States, sym \in Symbols : action_for(lang, s, sym).type \in RecognizedTypes

(* a parse of the input by a new parser of the same language *)
Fresh(in) == ts_parser_parse(ts_parser_make(language), in, NoEdit)

FreshTree(in) ==
  LET q == Fresh(in)
  IN IF q.pc = "returned" /\ q.result # NULL THEN TreeOf(q.heap, q.result)
     ELSE [symbol |-> "none"]

(* the tree below a node once the extra nodes are removed *)
NonExtra(h, ids) == SelectSeq(ids, LAMBDA i : ~h[i].extra)

RECURSIVE Skeleton(_, _)
Skeleton(h, id) ==
  [symbol |-> h[id].symbol,
   children |-> [i \in 1..Len(NonExtra(h, h[id].children)) |->
                   Skeleton(h, NonExtra(h, h[id].children)[i])]]

FreshSkeleton(in) ==
  LET q == Fresh(in)
  IN IF q.pc = "returned" /\ q.result # NULL THEN Skeleton(q.heap, q.result)
     ELSE [symbol |-> "none"]

(* the input with every extra-producing '#' replaced by a blank *)
WithoutExtras(in) == [i \in 1..Len(in) |-> IF in[i] = "#" THEN " " ELSE in[i]]

HasExtraToken(in) == \E i \in 1..Len(in) : in[i] = "#"

(* every '#' has a grammar token's character as its nearest neighbour, *)
(* blanks and other '#' aside, on both sides                           *)
BetweenGrammarTokens(in) ==
  \A k \in 1..Len(in) : in[k] = "#" =>
    /\ \E i \in 1..(k - 1) :
         in[i] \in {"1", "+"} /\ \A j \in (i + 1)..(k - 1) : in[j] \in {"#", " "}
    /\ \E i \in (k + 1)..Len(in) :
         in[i] \in {"1", "+"} /\ \A j \in (k + 1)..(i - 1) : in[j] \in {"#", " "}

(* the parse reaches handle_error *)
RECURSIVE EntersRecovery(_, _)
EntersRecovery(p, fuel) ==
  IF p.pc = "handle_error" THEN TRUE
  ELSE IF fuel = 0 \/ p.pc \in {"returned", "undefined"} THEN FALSE
  ELSE EntersRecovery(step(p), fuel - 1)

ParsesWithoutRecovery(in) ==
  ~EntersRecovery(parse_begin(ts_parser_make(language), in, NoEdit), MaxSteps)

UnknownLookup ==
  /\ pc = "loop"
  /\ lookahead # NULL
  /\ CurrentAction(Cur).type \notin RecognizedTypes

(* the references the parser holds to a node: stack entries and slots *)
Holdings(id) ==
  Cardinality({i \in 1..Len(stack) : stack[i].node = id})
    + (IF lookahead = id THEN 1 ELSE 0) + (IF next_lookahead = id THEN 1 ELSE 0)

IsChild(id) ==
  \E j \in 1..Len(heap) : \E k \in 1..Len(heap[j].children) : heap[j].children[k] = id

ReduceBegins ==
  \/ pc = "get_root"
  \/ /\ pc = "loop"
     /\ lookahead # NULL
     /\ CurrentAction(Cur).type \in {TSParseActionTypeReduce, TSParseActionTypeReduceExtra}

RootCoversInput ==
  Returned => ts_tree_total_size(heap, result) = Len(lexer.input)

(* C3: the tree a parse with an edit returns is the tree a new parser     *)
(* returns for the edited input.                                          *)
IncrementalEqualsFresh ==
  (Returned /\ edit.present) => TreeOf(heap, result) = FreshTree(lexer.input)

(* C4: with a table of recognized actions only, parse never returns NULL; *)
(* whatever tree parse returns is a document node.                        *)
ReturnsADocument ==
  pc = "returned" =>
    /\ AllRecognized(language) => result # NULL
    /\ result # NULL => heap[result].symbol = ts_builtin_sym_document

DocumentWithErrorNode ==
  /\ Returned
  /\ AllRecognized(language)
  /\ heap[result].symbol = ts_builtin_sym_document
  /\ \E k \in 1..Len(heap[result].children) :
       heap[heap[result].children[k]].symbol = ts_builtin_sym_error

(* C5: leaving handle_error, on success and on failure, the stack is a    *)
(* prefix of the stack before plus one node, and that node has symbol     *)
(* ts_builtin_sym_error.                                                  *)
RecoveryPushesOneErrorNode ==
  [][(pc = "handle_error" /\ pc' # "handle_error") =>
       /\ Len(stack') >= 1
       /\ Len(stack') <= Len(stack) + 1
       /\ SubSeq(stack', 1, Len(stack') - 1) = SubSeq(stack, 1, Len(stack') - 1)
       /\ heap'[stack'[Len(stack')].node].symbol = ts_builtin_sym_error]_vars

(* C6: after destroy no tree node is live, as before the first parse.     *)
NoLiveNodeAfterDestroy == pc = "destroyed" => LiveNodes(heap) = 0

UnknownActionReturnsNull ==
  [][/\ UnknownLookup =>
          /\ pc' = "returned"
          /\ result' = NULL
          /\ stack' = stack
          /\ lookahead' = lookahead
          /\ next_lookahead' = next_lookahead
          /\ heap' = heap
     /\ (pc = "returned" /\ result = NULL /\ calls > 0 /\ pc' = "destroyed") =>
          \A id \in 1..Len(heap) :
            /\ heap'[id].ref_count >= 0
            /\ ~IsChild(id) => heap'[id].ref_count = heap[id].ref_count - Holdings(id)]_vars

DestroyedAfterUnknownAction ==
  /\ pc = "destroyed"
  /\ result = NULL
  /\ calls > 0
  /\ \E i \in 1..Len(heap) : heap[i].children # <<>>

(* C9: when reduce begins, from a Reduce action, a ReduceExtra action or  *)
(* get_root, next_lookahead is empty.                                     *)
NextLookaheadEmptyAtReduce == ReduceBegins => next_lookahead = NULL

ReduceAfterBreakdown ==
  /\ pc = "loop"
  /\ lookahead # NULL
  /\ CurrentAction(Cur).type \in {TSParseActionTypeReduce, TSParseActionTypeReduceExtra}
  /\ edit.present
  /\ Len(stack) > 1

(* C10: when the main loop calls the lexer for a new token, the right     *)
(* position of the stack is the lexer's current position.                 *)
LexAtRightPosition ==
  (pc = "loop" /\ lookahead = NULL) =>
    ts_stack_right_position(heap, stack) = lexer.current_position

(* the state beneath entry i of the stack: the top state of the entries below *)
StateBeneath(stk, i) == ts_stack_top_state(SubSeq(stk, 1, i - 1))

(* C11: every stack entry whose node is marked extra holds the state of   *)
(* the entry beneath it, or the empty stack's top state at the bottom.    *)
ExtraEntriesKeepState ==
  \A i \in 1..Len(stack) :
    ts_tree_is_extra(heap, stack[i].node) => stack[i].state = StateBeneath(stack, i)

NonExtraCount(h, stk) ==
  Cardinality({i \in 1..Len(stk) : ~ts_tree_is_extra(h, stk[i].node)})

(* the child count the table asks of the reduce about to be dispatched *)
NominalChildCount ==
  IF CurrentAction(Cur).type = TSParseActionTypeReduce
  THEN CurrentAction(Cur).child_count ELSE 1

(* C12: a Reduce or ReduceExtra step with nominal count n, on a stack of  *)
(* at least n non-extra entries, removes the top k entries, which hold    *)
(* exactly n non-extra nodes, the deepest of them non-extra unless k is   *)
(* the whole stack; the new node's children are those k nodes, bottom     *)
(* first, and the entries below are unchanged.                            *)
ReduceTakesTopEntries ==
  [][(ReduceBegins /\ pc = "loop" /\ NonExtraCount(heap, stack) >= NominalChildCount) =>
       LET k == Len(stack) - Len(stack')
           taken == SubSeq(stack, Len(stack) - k + 1, Len(stack))
       IN /\ k >= 0
          /\ stack' = SubSeq(stack, 1, Len(stack) - k)
          /\ NonExtraCount(heap, taken) = NominalChildCount
          /\ k = Len(stack) \/ k = 0 \/ ~ts_tree_is_extra(heap, taken[1].node)
          /\ lookahead' = Len(heap) + 1
          /\ heap'[lookahead'].symbol = CurrentAction(Cur).symbol
          /\ heap'[lookahead'].children = NodesOf(taken)]_vars

ReducedOverExtras ==
  /\ pc = "loop"
  /\ lookahead # NULL
  /\ next_lookahead # NULL
  /\ heap[lookahead].symbol = "expr"
  /\ Len(heap[lookahead].children) > 3
  /\ \E i \in 1..Len(heap[lookahead].children) : heap[heap[lookahead].children[i]].extra

(* handle_error, lines 134-143, for stack entry i: its state shifts the   *)
(* error symbol to a state in which the lookahead is not an error         *)
CanRecoverAt(i) ==
  LET action_on_error == action_for(language, stack[i].state, ts_builtin_sym_error)
  IN /\ action_on_error.type = TSParseActionTypeShift
     /\ action_for(language, action_on_error.to_state, heap[lookahead].symbol).type
          # TSParseActionTypeError

RecoveryEntries == {i \in 1..Len(stack) : CanRecoverAt(i)}

TopmostRecoveryEntry ==
  CHOOSE i \in RecoveryEntries : \A j \in RecoveryEntries : j <= i

(* C13: a pass of handle_error that finds an entry to recover at leaves   *)
(* the entries up to and including the topmost such entry unchanged,      *)
(* followed by one entry holding the state after the error and the error  *)
(* node, and the action then looked up by the parse loop is not Error.    *)
RecoveryUnwindsToTopmostEntry ==
  [][(pc = "handle_error" /\ RecoveryEntries # {}) =>
       LET i == TopmostRecoveryEntry
           state_after_error ==
             action_for(language, stack[i].state, ts_builtin_sym_error).to_state
       IN /\ stack' = Append(SubSeq(stack, 1, i),
                             [state |-> state_after_error, node |-> error])
          /\ \A j \in 1..i : heap'[stack[j].node] = heap[stack[j].node]
          /\ pc' = "loop"
          /\ lookahead' # NULL
          /\ action_for(language, ts_stack_top_state(stack'),
                        heap'[lookahead'].symbol).type # TSParseActionTypeError]_vars

(* the error node was pushed over a kept entry while a shifted plus token  *)
(* left the stack without becoming a child                                *)
RecoveredBelowTop ==
  /\ pc = "loop"
  /\ lookahead # NULL
  /\ Len(stack) > 1
  /\ ts_stack_top_node(stack) # lookahead
  /\ heap[ts_stack_top_node(stack)].symbol = ts_builtin_sym_error
  /\ \E n \in 1..Len(heap) :
       /\ heap[n].symbol = "plus"
       /\ heap[n].ref_count > 0
       /\ Holdings(n) = 0
       /\ ~IsChild(n)

(* the padding resize_error subtracts: line 147 has zeroed the lookahead's *)
(* padding before a recovery resizes the error node                        *)
PaddingAtResize ==
  IF RecoveryEntries # {} /\ error = lookahead
  THEN ts_length_zero ELSE heap[error].padding

(* the stack resize_error measures: truncated by a recovery (line 146),   *)
(* whole when recovery fails                                              *)
StackAtResize ==
  IF RecoveryEntries # {} THEN SubSeq(stack, 1, TopmostRecoveryEntry) ELSE stack

(* C14: a pass of handle_error that recovers leaves the right position of *)
(* the stack at the lexer's token start; whenever a pass resizes the      *)
(* error node, the token start is at least the right position of the      *)
(* stack it measures plus the error node's padding, and the size is not   *)
(* a wrapped-around value.                                                *)
ErrorNodeEndsAtTokenStart ==
  [][(pc = "handle_error" /\ pc' \in {"loop", "get_root"}) =>
       /\ pc' = "loop" =>
            ts_stack_right_position(heap', stack') = lexer'.token_start_position
       /\ lexer'.token_start_position >=
            ts_length_add(ts_stack_right_position(heap, StackAtResize), PaddingAtResize)
       /\ heap'[error].size >= 0]_vars

(* the step on which breakdown_stack leaves its loop and returns *)
BreakdownReturns == pc = "breakdown_stack" /\ pc' = "loop"

(* C15: when breakdown_stack returns from a call with an edit, the stack  *)
(* is empty, or its right position is strictly before the edit's position *)
(* and its top node is a leaf; no entry left ends at or after the edit's  *)
(* position.                                                              *)
BreakdownStopsBeforeEdit ==
  [][BreakdownReturns =>
       /\ \/ stack' = <<>>
          \/ /\ ts_stack_right_position(heap', stack') < edit.position
             /\ ts_tree_children(heap', ts_stack_top_node(stack')) = <<>>
       /\ \A i \in 1..Len(stack') :
            /\ ts_stack_right_position(heap', SubSeq(stack', 1, i)) >= 0
            /\ ts_stack_right_position(heap', SubSeq(stack', 1, i)) < edit.position]_vars

BrokenDownToLeaves ==
  /\ pc = "loop"
  /\ edit.present
  /\ lookahead = NULL
  /\ Len(stack) > 1
  /\ position < edit.position
  /\ ts_stack_right_position(heap, stack) = position
  /\ lexer.token_end_position = position
  /\ \A i \in 1..Len(stack) : ts_tree_children(heap, stack[i].node) = <<>>

(* C16: the position breakdown_stack returns, to which the lexer is       *)
(* reset, is the right position of the stack it leaves; a call without an *)
(* edit leaves the stack empty and returns position zero.                 *)
BreakdownReturnsRightPosition ==
  [][/\ BreakdownReturns =>
          /\ position' = ts_stack_right_position(heap', stack')
          /\ lexer'.current_position = position'
     /\ (pc' \in Running /\ calls' # calls /\ ~edit'.present) =>
          /\ stack' = <<>>
          /\ position' = ts_length_zero
          /\ lexer'.current_position = ts_length_zero]_vars

LexerResetAfterBreakdown ==
  /\ pc = "loop"
  /\ edit.present
  /\ lookahead = NULL
  /\ stack # <<>>
  /\ position > 0
  /\ lexer.current_position = position
  /\ lexer.token_end_position = position
  /\ ts_stack_right_position(heap, stack) = position
  /\ heap[ts_stack_top_node(stack)].padding > 0

(* a pass of breakdown_stack that pops the top node *)
BreakdownPops == pc = "breakdown_stack" /\ Len(stack') >= Len(stack) - 1 /\ stack' # stack

(* the action breakdown_stack looks up for the child at entry i of the    *)
(* stack it leaves: action_for(top state beneath, child symbol)           *)
PutBackAction(i) ==
  action_for(language, StateBeneath(stack', i), heap[stack'[i].node].symbol)

(* the entries of stack' from the popped entry's place upwards are the    *)
(* first children of the popped node, in order, each holding the state    *)
(* to_state of its Shift action and otherwise the state the popped entry  *)
(* held (parent) or the top state beneath the child                       *)
PutBackStates(parent) ==
  LET base == Len(stack) - 1
      children == ts_tree_children(heap, ts_stack_top_node(stack))
  IN /\ SubSeq(stack', 1, base) = SubSeq(stack, 1, base)
     /\ Len(stack') - base <= Len(children)
     /\ \A i \in (base + 1)..Len(stack') :
          /\ stack'[i].node = children[i - base]
          /\ stack'[i].state =
               IF PutBackAction(i).type = TSParseActionTypeShift
               THEN PutBackAction(i).to_state
               ELSE IF parent THEN stack[Len(stack)].state
                    ELSE StateBeneath(stack', i)

(* C17, as stated: during breakdown each restored child is pushed with    *)
(* to_state when the action for it in the current top state is a Shift,   *)
(* and otherwise with the state the popped parent's stack entry held.     *)
PutBackElseParentState ==
  [][BreakdownPops => PutBackStates(TRUE)]_vars

(* C17, amended: during breakdown each restored child is pushed with      *)
(* to_state when the action for it in the current top state is a Shift,   *)
(* and otherwise with the current top state, the state of the entry       *)
(* beneath it.                                                            *)
PutBackElseTopState ==
  [][BreakdownPops => PutBackStates(FALSE)]_vars

PutBackOverShiftedSibling ==
  /\ pc = "breakdown_stack"
  /\ edit.present
  /\ \E i \in 2..Len(stack) :
       /\ action_for(language, StateBeneath(stack, i), heap[stack[i].node].symbol).type
            # TSParseActionTypeShift
       /\ stack[i].state = StateBeneath(stack, i)
       /\ stack[i].state # 0

(* C18: on the step on which parse returns a tree, the stack is left with *)
(* exactly one entry, of state 0, whose node is the returned tree; the    *)
(* tree is a document with every option flag clear and at least one       *)
(* child, and when the stack was empty at that step its only child is a   *)
(* new error node of zero padding and zero size.                          *)
RootIsTheOnlyEntry ==
  [][(pc' = "returned" /\ result' # NULL /\ pc # "returned") =>
       /\ pc = "get_root"
       /\ Len(stack') = 1
       /\ stack'[1].state = 0
       /\ stack'[1].node = result'
       /\ heap'[result'].symbol = ts_builtin_sym_document
       /\ ~heap'[result'].extra
       /\ ~heap'[result'].hidden
       /\ Len(heap'[result'].children) >= 1
       /\ stack # <<>> => heap'[result'].children = NodesOf(stack)
       /\ stack = <<>> =>
            /\ heap'[result'].children = <<Len(heap) + 1>>
            /\ heap'[Len(heap) + 1].symbol = ts_builtin_sym_error
            /\ heap'[Len(heap) + 1].padding = ts_length_zero
            /\ heap'[Len(heap) + 1].size = ts_length_zero
            /\ heap'[Len(heap) + 1].children = <<>>]_vars

RootOfEmptyStack ==
  /\ Returned
  /\ language = "acceptstart"
  /\ stack = <<[state |-> 0, node |-> result]>>
  /\ heap[result].children = <<result - 1>>
  /\ heap[result - 1].symbol = ts_builtin_sym_error
  /\ ts_tree_total_size(heap, result - 1) = ts_length_zero

(* the step pushes the lookahead onto the stack *)
ShiftsLookahead ==
  /\ Len(stack') = Len(stack) + 1
  /\ SubSeq(stack', 1, Len(stack)) = stack
  /\ stack'[Len(stack')].node = lookahead

(* C19: a Reduce or ReduceExtra step moves the lookahead to               *)
(* next_lookahead without calling the lexer; no step taken while a token  *)
(* waits in next_lookahead calls the lexer; and the step that shifts the  *)
(* node reduce produced makes that token, unchanged, the lookahead again  *)
(* and empties next_lookahead.                                            *)
DisplacedTokenReturns ==
  [][/\ (ReduceBegins /\ pc = "loop") =>
          /\ next_lookahead' = lookahead
          /\ lookahead' = Len(heap) + 1
          /\ lexer' = lexer
     /\ next_lookahead # NULL => lexer' = lexer
     /\ (pc = "loop" /\ next_lookahead # NULL /\ ShiftsLookahead) =>
          /\ lookahead' = next_lookahead
          /\ next_lookahead' = NULL
          /\ heap'[lookahead'] = heap[next_lookahead]]_vars

DisplacedTokenIsLookaheadAgain ==
  /\ pc = "loop"
  /\ next_lookahead = NULL
  /\ lookahead # NULL
  /\ stack # <<>>
  /\ ts_tree_children(heap, ts_stack_top_node(stack)) # <<>>
  /\ lookahead < ts_stack_top_node(stack)
  /\ heap[lookahead].symbol \in {"plus", "end"}

(* C20: a pass of handle_error that finds no entry to recover at either   *)
(* stays in handle_error with the lexer's current position strictly       *)
(* increased, or fails with the lexer at the end of the input, unable to  *)
(* advance, and the error node pushed with state 0; after a failure the   *)
(* same call returns the root with no further lexing or table-driven step.*)
RecoveryAdvancesOrFails ==
  [][/\ (pc = "handle_error" /\ RecoveryEntries = {}) =>
          \/ /\ pc' = "handle_error"
             /\ lexer'.current_position > lexer.current_position
             /\ error' = error
             /\ stack' = stack
          \/ /\ pc' = "get_root"
             /\ lexer'.current_position = lexer.current_position
             /\ lexer'.current_position = Len(lexer.input)
             /\ ~CanAdvance(lexer')
             /\ stack' = Append(stack, [state |-> 0, node |-> error])
     /\ pc = "get_root" =>
          /\ pc' = "returned"
          /\ result' # NULL
          /\ calls' = calls
          /\ lexer' = lexer]_vars

FailedAfterSkipping ==
  /\ pc = "get_root"
  /\ Len(stack) > 1
  /\ stack[Len(stack)].state = 0
  /\ heap[ts_stack_top_node(stack)].symbol = ts_builtin_sym_error
  /\ heap[ts_stack_top_node(stack)].size >= 2
  /\ lexer.current_position = Len(lexer.input)

====
